---- MODULE Spec2Model ----
(***************************************************************************)
(* Model of the FactorFence visualizer (src/src/visualizers/FactorFence.ts)*)
(* as a state machine: the fields of one FactorFence instance, the p5      *)
(* sketch state it reads (canvas size, keys held, loop flag), and the      *)
(* sequence backend it fetches from.                                       *)
(*                                                                         *)
(* Real numbers are kept in fixed point: a value v of the program is the   *)
(* integer v * Unit, rounded down where a division does not come out even. *)
(* Sequence indices, frame counts and bar counts are plain integers.       *)
(***************************************************************************)
EXTENDS Integers, Sequences, FiniteSets, TLC

(***************************************************************************)
(* Bounds of the model.                                                    *)
(***************************************************************************)
\* number of terms the backend sequence has (seq.last - seq.first + 1)
SeqLen == 4
\* Draw is not taken once the idle counter has passed this value
FrameCap == 4
\* graphCorner.x stays within this many pixels left of the canvas edge
MaxPanX == 62
\* inputs of the user after the first setup: key presses, pointer moves,
\* wheel turns, clicks, and further setups
MaxEvents == 2
\* pairs <<base, power>> in a factor list looked at on its own
MaxPairs == 2
\* with a stretch key held, heightScale stays above -MaxStretch and below
\* MaxStretch + 10
MaxStretch == 2
\* term counts and bin sizes given to a configuration check: -MaxConfig .. MaxConfig
MaxConfig == 10
\* entries of a sequence's params list
MaxParams == 2
\* numModulus is applied to terms of -MaxTerm .. MaxTerm and moduli of 1 .. MaxModulus
MaxTerm == 12
MaxModulus == 4
\* the ending index num of a chaos game is at most MaxNum; one that draws
\* forever (num = 0) is followed up to index MaxIndex
MaxNum == 3
MaxIndex == 5
\* a self-similarity grid asks for 1 .. MaxGrid or BigGrid columns and rows,
\* in a view of 1 .. MaxView pixels each way
MaxGrid == 6
BigGrid == 40
MaxView == 2

(***************************************************************************)
(* Program constants.                                                      *)
(***************************************************************************)
Unit == 10 * 10 * 10
recWidth == 12
recSpaceX == recWidth + 2
PanStep == 10
IdleThreshold == 3
defaultHeightScale == 55
PosInf == 1000000
\* SelfSimilarity: positions drawn in one tick; largest grid per pixel of view
drawsPerTick == 500
maxScale == 16

Max(a, b) == IF a >= b THEN a ELSE b
Min(a, b) == IF a <= b THEN a ELSE b
Abs(a) == IF a >= 0 THEN a ELSE -a
Sign(a) == IF a > 0 THEN 1 ELSE IF a < 0 THEN -1 ELSE 0
SetMax(S) == CHOOSE x \in S : \A y \in S : y <= x
SetMin(S) == CHOOSE x \in S : \A y \in S : x <= y

(***************************************************************************)
(* The sequence backend: seq.first, seq.last, getElement, getFactors.      *)
(***************************************************************************)
SeqFirst == 1
SeqLast == SeqFirst + SeqLen - 1
SeqIdx == SeqFirst .. SeqLast

\* the terms of the sequence, by position from seq.first
SeqValues == <<-8, -1, 12, 0, 1, 7, 6, -3>>
getElement(i) == SeqValues[i - SeqFirst + 1]

\* the backend's factorization of a term: pairs <<base, power>>, with the
\* sign as base -1 and zero as base 0
FactorTable(v) ==
    CASE v = 12 -> << <<2, 2>>, <<3, 1>> >>
      [] v = -8 -> << <<-1, 1>>, <<2, 3>> >>
      [] v = 0  -> << <<0, 1>> >>
      [] v = 1  -> << >>
      [] v = 7  -> << <<7, 1>> >>
      [] v = -1 -> << <<-1, 1>> >>
      [] v = 6  -> << <<2, 1>>, <<3, 1>> >>
      [] v = -3 -> << <<-1, 1>>, <<3, 1>> >>
getFactors(i) == FactorTable(getElement(i))

\* natural logarithm of a positive integer, in fixed point
LnTable == <<0, 693, 1099, 1386, 1609, 1792, 1946, 2079, 2197, 2303, 2398, 2485>>
BigLog(n) == LnTable[n]

VARIABLES
    phase,          \* "constructed" before the first setup(), then "running"
    first, last,    \* this.first, this.last
    signs,          \* this.signs (parameter)
    width, height,  \* sketch.width, sketch.height
    factorizations, \* this.factorizations: index -> list of bars, where defined
    firstFailure,   \* this.firstFailure
    frame,          \* this.frame
    looping,        \* the sketch's loop flag (loop() / noLoop())
    scaleFactor,    \* this.scaleFactor, fixed point
    gx, gy,         \* this.graphCorner.x, .y, fixed point
    heightScale,    \* this.heightScale, fixed point
    collectFailed,  \* this.collectFailed
    keysDown,       \* keys currently held (sketch.keyIsDown)
    backend,        \* how the sequence backend answers during this session
    lastTick,       \* what draw() did, when the last step was a draw tick
    hist,           \* bookkeeping of loop starts and inputs (see NoHist)
    highlight,      \* this.highlight (parameter, set by mouseClicked)
    labels,         \* this.labels (parameter)
    mouse,          \* sketch.mouseX, sketch.mouseY, fixed point
    mousePrime,     \* this.mousePrime
    mouseOn,        \* this.mouseOn
    mouseIndex,     \* this.mouseIndex
    probe           \* one call of storeFactors' conversion and of drawTerm
                    \* on its own: its arguments and what it returned

vars == <<phase, first, last, signs, width, height, factorizations,
          firstFailure, frame, looping, scaleFactor, gx, gy, heightScale,
          collectFailed, keysDown, backend, lastTick, hist, highlight,
          labels, mouse, mousePrime, mouseOn, mouseIndex, probe>>

\* what the hit tests of drawTerm write
hover == <<mousePrime, mouseOn, mouseIndex>>

\* the fields of the instance and of its environment
fields == <<phase, first, last, signs, width, height, factorizations,
            firstFailure, frame, looping, scaleFactor, gx, gy, heightScale,
            collectFailed, keysDown, backend, lastTick, hist, highlight,
            labels, mouse, mousePrime, mouseOn, mouseIndex>>

(***************************************************************************)
(* The backend's answers are inputs of the operation that asks: failE is   *)
(* the set of indices for which seq.getElement throws during the           *)
(* operation, failF the set for which seq.getFactors throws.  The variable *)
(* backend says which answers the backend of the session can give.         *)
(* elements "ok": getElement always returns; "filling": it returns for the *)
(* indices up to elemTo and throws beyond, and elemTo grows as the backend *)
(* fills its cache.  factors "ok": getFactors always returns; "hole": it   *)
(* throws for the index hole on every attempt and returns for every other  *)
(* index; "flaky": a call for the index hole may throw or return, every    *)
(* other call returns.                                                     *)
(***************************************************************************)
Ready == [elements |-> "ok", elemTo |-> SeqLast, factors |-> "ok", hole |-> 0]

Backends ==
    {Ready}
    \cup {[Ready EXCEPT !.factors = "hole", !.hole = k] :
             k \in SeqIdx}
    \cup {[Ready EXCEPT !.factors = "flaky", !.hole = k] :
             k \in SeqIdx}

Filling == [Ready EXCEPT !.elements = "filling", !.elemTo = SeqFirst - 1]

\* the values elemTo can have when the backend is next asked, for a session
\* that ends at index lst
elementMarks(b, lst) ==
    IF b.elements = "ok" THEN {SeqLast} ELSE b.elemTo .. lst

\* the same for a draw tick: the backend has got further since the frame
\* before, until it has every element of the session
elementProgress(b, lst) ==
    IF b.elements = "ok" THEN {SeqLast}
    ELSE IF b.elemTo >= lst THEN {b.elemTo}
    ELSE (b.elemTo + 1) .. lst

elementFailures(mark) == {i \in SeqIdx : i > mark}

factorAnswers(b, asked) ==
    CASE b.factors = "ok"    -> {{}}
      [] b.factors = "hole"  -> {{b.hole} \cap asked}
      [] b.factors = "flaky" -> {{}, {b.hole} \cap asked}

(***************************************************************************)
(* barsShowing(): the visible index range, from the view state.            *)
(* floor(first - min(0, x / recSpace.x)) is first for x >= 0 and           *)
(* first + floor(|x| / recSpace.x) for x < 0 (first is an integer).        *)
(***************************************************************************)
barsShowingUnclamped(fst, lst, x, sf, w) ==
    LET shift   == IF x >= 0 THEN 0 ELSE (-x) \div (recSpaceX * Unit)
        minBars == Max((fst + shift) - 1, fst)
        numBars == ((w * Unit) \div (sf * recSpaceX)) + 2
    IN  [minBars |-> minBars, maxBars |-> minBars + numBars - 1,
         numBars |-> numBars]

barsShowing(fst, lst, x, sf, w) ==
    LET shift   == IF x >= 0 THEN 0 ELSE (-x) \div (recSpaceX * Unit)
        minBars == Max((fst + shift) - 1, fst)
        onWidth == ((w * Unit) \div (sf * recSpaceX)) + 2
        numBars == Min(onWidth, lst - minBars + 1)
        maxBars == minBars + numBars - 1
    IN  [minBars |-> minBars, maxBars |-> maxBars, numBars |-> numBars]

(***************************************************************************)
(* collectDataForScale(barsInfo): the vertical scale from the visible      *)
(* terms.  Array(numBars) throws a RangeError for numBars < 0, after       *)
(* collectFailed has been cleared.                                         *)
(***************************************************************************)
scaleSample(i, failE, sg) ==
    IF i \in failE THEN 0
    ELSE LET elt  == getElement(i)
             sig  == IF elt < 0 /\ sg THEN -1 ELSE 1
             elt2 == IF elt < 0 /\ ~sg THEN -elt ELSE elt
             elt3 == IF elt2 = 0 THEN 1 ELSE elt2
         IN  BigLog(elt3 * sig) * sig

heightBound(v) == Sign(v) * Max(2 * Unit, Abs(v))

collectDataForScale(bi, failE, sg, h, y) ==
    IF bi.numBars < 0
    THEN [threw |-> TRUE, collectFailed |-> FALSE, heightScale |-> 0, gy |-> y]
    ELSE
    LET idx         == bi.minBars .. (bi.minBars + bi.numBars - 1)
        seqVals     == {scaleSample(i, failE, sg) : i \in idx}
        failed      == idx \cap failE # {}
        \* Math.max() of no values is -Infinity, Math.min() is +Infinity:
        \* both bounds then end at 0
        heightMax   == IF idx = {} THEN 0
                       ELSE Max(heightBound(SetMax(seqVals)), 0)
        heightMin   == IF idx = {} THEN 0
                       ELSE Min(heightBound(SetMin(seqVals)), 0)
        graphHeight == Abs(heightMax - heightMin)
        hs          == IF graphHeight # 0
                       THEN (((4 * h * Unit) \div 10) * Unit) \div graphHeight
                       ELSE (4 * h * Unit) \div 10
    IN  [threw |-> FALSE, collectFailed |-> failed, heightScale |-> hs,
         gy |-> y + ((heightMin * hs) \div Unit)]

(***************************************************************************)
(* storeFactors(barsInfo): fetch and cache the factorizations from         *)
(* this.firstFailure up to maxBars; returns the new frontier.              *)
(***************************************************************************)
Repeat(b, n) == [j \in 1 .. n |-> b]

BarsOncePerBase(facsRaw) ==
    LET keeps(pr) == pr[1] # -1 /\ pr[1] # 0
        kept      == SelectSeq(facsRaw, keeps)
    IN  [j \in 1 .. Len(kept) |->
            [prime |-> kept[j][1], log |-> BigLog(kept[j][1])]]

RECURSIVE Bars(_)
Bars(facsRaw) ==
    IF facsRaw = << >> THEN << >>
    ELSE LET base  == Head(facsRaw)[1]
             power == Head(facsRaw)[2]
         IN  (IF base # -1 /\ base # 0
              THEN Repeat([prime |-> base, log |-> BigLog(base)], power)
              ELSE << >>) \o Bars(Tail(facsRaw))

storeOneOnSuccess(myIndex, cache, failF) ==
    IF myIndex \in failF THEN cache
    ELSE (myIndex :> Bars(getFactors(myIndex))) @@ cache

\* the loop body for myIndex: facsRaw stays [] when getFactors throws, and
\* the list made from it is written to the cache either way
storeOne(myIndex, cache, failF) ==
    LET facsRaw == IF myIndex \in failF THEN << >> ELSE getFactors(myIndex)
    IN  (myIndex :> Bars(facsRaw)) @@ cache

RECURSIVE storeLoop(_, _, _, _, _)
storeLoop(myIndex, maxBars, ffLocal, cache, failF) ==
    IF myIndex > maxBars
    THEN [firstFailure |-> ffLocal, factorizations |-> cache]
    ELSE LET ff2 == IF myIndex \in failF /\ ffLocal > myIndex
                    THEN myIndex ELSE ffLocal
         IN  storeLoop(myIndex + 1, maxBars, ff2,
                       storeOne(myIndex, cache, failF), failF)

storeFactorsUntilFailure(bi, ff, cache, failF) ==
    LET failing == {i \in ff .. bi.maxBars : i \in failF}
        stop    == IF failing = {} THEN bi.maxBars ELSE SetMin(failing)
    IN  storeLoop(ff, stop, bi.maxBars, cache, failF)

storeFactorsFrontierAtMax(bi, ff, cache, failF) ==
    [storeLoop(ff, bi.maxBars, bi.maxBars, cache, failF)
        EXCEPT !.firstFailure = bi.maxBars]

storeFactors(bi, ff, cache, failF) ==
    storeLoop(ff, bi.maxBars, bi.maxBars, cache, failF)

(***************************************************************************)
(* keyPresses(): zoom, pan and stretch for the keys held during a tick.    *)
(***************************************************************************)
Keys == {"UP", "DOWN", "LEFT", "RIGHT", "I", "K", "U", "O"}

zoomBy(v, num, den) ==
    [v EXCEPT !.scaleFactor = (v.scaleFactor * num) \div den,
              !.gy = (v.gy * den) \div num]

panStep(sf) == (PanStep * Unit * Unit) \div sf

keyPresses(v, kd) ==
    LET v1 == IF "UP" \in kd THEN zoomBy(v, 103, 100)
              ELSE IF "DOWN" \in kd THEN zoomBy(v, 97, 100)
              ELSE v
        v2 == IF "LEFT" \in kd
              THEN [v1 EXCEPT !.gx = @ - panStep(v1.scaleFactor)] ELSE v1
        v3 == IF "RIGHT" \in kd
              THEN [v2 EXCEPT !.gx = @ + panStep(v2.scaleFactor)] ELSE v2
        v4 == IF "I" \in kd
              THEN [v3 EXCEPT !.gy = @ - panStep(v3.scaleFactor)] ELSE v3
        v5 == IF "K" \in kd
              THEN [v4 EXCEPT !.gy = @ + panStep(v4.scaleFactor)] ELSE v4
        v6 == IF "U" \in kd
              THEN [v5 EXCEPT !.heightScale = @ + Unit] ELSE v5
        v7 == IF "O" \in kd
              THEN [v6 EXCEPT !.heightScale = @ - Unit] ELSE v6
    IN  v7

View == [scaleFactor |-> scaleFactor, gx |-> gx, gy |-> gy,
         heightScale |-> heightScale]

(***************************************************************************)
(* drawTerm(myIndex) begins with seq.getElement(myIndex), outside any try: *)
(* the loop over the visible range ends at the first index whose element   *)
(* is not available, with the exception leaving draw().                    *)
(***************************************************************************)
drawTermThrows(myIndex, failE) == myIndex \in failE

drawLoop(bi, failE) ==
    LET visible == bi.minBars .. bi.maxBars
        bad     == {i \in visible : drawTermThrows(i, failE)}
    IN  IF bad = {}
        THEN [threw |-> FALSE, drawn |-> visible]
        ELSE [threw |-> TRUE, drawn |-> bi.minBars .. (SetMin(bad) - 1)]

(***************************************************************************)
(* drawTerm(myIndex) after its first line: the placeholder, then the bars  *)
(* of the term in two passes over the cached list, each bar with its hit   *)
(* test.  Lengths are fixed point; y grows downwards, as on the canvas.    *)
(***************************************************************************)
\* one pass of the loop over the factors: the bars it draws, in order
RECURSIVE pass(_, _, _)
pass(factors, hl, primeIsHigh) ==
    IF factors = << >> THEN << >>
    ELSE LET factor == Head(factors)
         IN  (IF (hl % factor.prime = 0) = primeIsHigh
              THEN <<[prime |-> factor.prime, log |-> factor.log,
                      primeIsHigh |-> primeIsHigh]>>
              ELSE << >>) \o pass(Tail(factors), hl, primeIsHigh)

passesHighOnly(factors, hl) == pass(factors, hl, TRUE)

\* for (const primeIsHigh of [true, false])
passes(factors, hl) == pass(factors, hl, TRUE) \o pass(factors, hl, FALSE)

\* the pointer, relative to the bar's corner, is on the bar
hitTest(testVec, barDiagAbs) ==
    /\ testVec.x >= 0
    /\ testVec.x <= barDiagAbs.x
    /\ testVec.y <= 0
    /\ testVec.y >= barDiagAbs.y

\* the body of the inner loop for one bar; st: barStart.y, the hover fields
\* and the segments drawn so far
drawBar(factor, st, mySign, hs, x, ptr) ==
    LET recHeight  == mySign * ((factor.log * hs) \div Unit)
        gradient   == IF factor.prime = st.mousePrime THEN "gradientMouse"
                      ELSE IF factor.primeIsHigh THEN "gradientHighlight"
                      ELSE "gradientBar"
        testVec    == [x |-> ptr.x - x, y |-> (ptr.y - st.y) * mySign]
        barDiagAbs == [x |-> recWidth * Unit, y |-> -recHeight * mySign]
        hit        == hitTest(testVec, barDiagAbs)
    IN  [y          |-> st.y - recHeight,
         mousePrime |-> IF hit THEN factor.prime ELSE st.mousePrime,
         mouseOn    |-> st.mouseOn \/ hit,
         segments   |-> Append(st.segments,
                               [kind |-> "bar", prime |-> factor.prime,
                                y |-> st.y, height |-> recHeight,
                                gradient |-> gradient, hit |-> hit])]

\* the one element of a set of one element (names a value once computed)
Only(S) == CHOOSE r \in S : TRUE

RECURSIVE drawBars(_, _, _, _, _, _)
drawBars(order, st, mySign, hs, x, ptr) ==
    IF order = << >> THEN st
    ELSE Only({drawBars(rest, st2, mySign, hs, x, ptr) :
                  rest \in {Tail(order)},
                  st2 \in {drawBar(Head(order), st, mySign, hs, x, ptr)}})

\* myTerm: the element; factors: factorizations[myIndex]; barStart: the
\* lower left corner of the term's stack; ptr: the pointer divided by
\* scaleFactor; mp: mousePrime before the call
drawTerm(myTerm, factors, sg, hl, mp, barStart, hs, ptr) ==
    LET mySign == IF myTerm < 0 /\ sg THEN -1 ELSE 1
        holder == IF myTerm = 0 \/ myTerm = 1 \/ myTerm = -1
                  THEN <<[kind |-> "placeholder", prime |-> 0,
                          y |-> barStart.y, height |-> Unit,
                          gradient |-> "gradientBar", hit |-> FALSE]>>
                  ELSE << >>
    IN  Only({drawBars(order, st, mySign, hs, barStart.x, ptr) :
                 order \in {passes(factors, hl)},
                 st \in {[y |-> barStart.y, mousePrime |-> mp,
                          mouseOn |-> FALSE, segments |-> holder]}})

\* testVec before barStart is subtracted: the pointer in the scaled sketch
scaled(m, sf) == [x |-> (m.x * Unit) \div sf, y |-> (m.y * Unit) \div sf]

\* where drawTerm puts the stack of myIndex
termCorner(myIndex, fst, x, y) ==
    [x |-> x + recSpaceX * Unit * (myIndex - fst), y |-> y]

\* the drawTerm call for myIndex in the view g (its hit tests do not read
\* mousePrime, which only picks the colour of a bar)
termDrawn(myIndex, cache, g) ==
    drawTerm(getElement(myIndex), cache[myIndex], g.signs, g.highlight, 0,
             termCorner(myIndex, g.first, g.gx, g.gy), g.heightScale, g.ptr)

\* the hover fields after the drawTerm calls for the indices from..to, made
\* in ascending order: those written by the last call with a hit
drawTerms(from, to, hv, cache, g) ==
    Only({IF on = {} THEN hv
          ELSE [mousePrime |-> termDrawn(SetMax(on), cache, g).mousePrime,
                mouseOn    |-> TRUE,
                mouseIndex |-> SetMax(on)] :
             on \in {{i \in from .. to :
                        /\ \A j \in from .. i : j \in DOMAIN cache
                        /\ termDrawn(i, cache, g).mouseOn}}})

\* the end of draw(): bottomText() clears mousePrime when the pointer is on
\* no bar, and runs on a canvas higher than 400 with labels on
bottomText(hv, h, lb) ==
    IF h > 400 /\ lb /\ ~hv.mouseOn THEN [hv EXCEPT !.mousePrime = 0]
    ELSE hv

drawCallsStoreFirst(collects, reachesStore, reachesTerms) ==
    <<"barsShowing">>
    \o (IF reachesStore THEN <<"storeFactors">> ELSE << >>)
    \o (IF collects THEN <<"collectDataForScale">> ELSE << >>)
    \o (IF reachesTerms THEN <<"drawTerm">> ELSE << >>)

\* the order in which draw() calls its steps, given which of them run
drawCalls(collects, reachesStore, reachesTerms) ==
    <<"barsShowing">>
    \o (IF collects THEN <<"collectDataForScale">> ELSE << >>)
    \o (IF reachesStore THEN <<"storeFactors">> ELSE << >>)
    \o (IF reachesTerms THEN <<"drawTerm">> ELSE << >>)

\* the line that stops the loop at the end of draw()
idleStop(fr) == fr > IdleThreshold

NoTick == [bars |-> [minBars |-> 0, maxBars |-> 0, numBars |-> 0],
           calls |-> << >>, threw |-> FALSE, tried |-> {}, failedF |-> {},
           drawn |-> {}, failedE |-> {}]

\* base: the value of frame when the loop was last started or resumed;
\* quiet: no tick since then ran with a key held
\* events: the inputs so far
\* woke: the last input handler found the loop halted
NoHist == [base |-> 0, quiet |-> TRUE, events |-> 0, woke |-> FALSE]

\* the pointer at the canvas origin
Corner == [x |-> 0, y |-> 0]

\* no call has been looked at on its own
NoProbe == [stage |-> "none"]

Constructed ==
    /\ phase = "constructed"
    /\ first = 0 /\ last = 0
    /\ signs = TRUE
    /\ width = 0 /\ height = 0
    /\ factorizations = << >>
    /\ firstFailure = PosInf
    /\ frame = 0
    /\ looping = FALSE
    /\ scaleFactor = Unit
    /\ gx = 0 /\ gy = 0
    /\ heightScale = defaultHeightScale * Unit
    /\ collectFailed = FALSE
    /\ keysDown = {}
    /\ backend = Ready
    /\ lastTick = NoTick
    /\ hist = NoHist
    /\ highlight = 1
    /\ labels = TRUE
    /\ mouse = Corner
    /\ mousePrime = 0
    /\ mouseOn = FALSE
    /\ mouseIndex = 0

Init ==
    /\ Constructed
    /\ probe = NoProbe

(***************************************************************************)
(* setup(): lines 318-368.  The host starts the sketch's loop.             *)
(***************************************************************************)
\* the parameter sets a session is set up with
Sessions ==
    {[terms |-> SeqLen + 1, signs |-> TRUE, canvas |-> [w |-> 14, h |-> 100],
      backend |-> b, highlight |-> 1, labels |-> TRUE] : b \in Backends}
    \cup
    {[terms |-> 3, signs |-> TRUE, canvas |-> [w |-> 14, h |-> 100],
      backend |-> Ready, highlight |-> 1, labels |-> TRUE]}
    \cup
    {[terms |-> 2, signs |-> sg, canvas |-> [w |-> 42, h |-> 500],
      backend |-> Filling, highlight |-> 1, labels |-> TRUE] :
         sg \in BOOLEAN}
seqTerms == SeqLast - SeqFirst + 1
loopAfterSetup == TRUE

emptyFactoring(cache, fst, lst) ==
    [i \in (DOMAIN cache) \cup (fst .. (lst - 1)) |->
        IF i \in fst .. (lst - 1) THEN << >> ELSE cache[i]]

\* the sequence behind an instance stays the same one when setup() runs again
sameSequence(be) ==
    phase = "running" => be = [backend EXCEPT !.elemTo = be.elemTo]

Setup(terms, sg, hl, lb, cv, be, mark) ==
    LET fst == SeqFirst
        lst == SeqFirst + Min(terms, seqTerms) - 1
        x0  == (5 * cv.w * Unit) \div 100
        y0  == (75 * cv.h * Unit) \div 100
    IN  /\ keysDown = {}
        /\ phase = "running" => hist.events < MaxEvents
        /\ sameSequence(be)
        /\ mark \in elementMarks(IF phase = "running" THEN backend ELSE be, lst)
        /\ backend' = [be EXCEPT !.elemTo = mark]
        /\ phase' = "running"
        /\ signs' = sg
        /\ highlight' = hl
        /\ labels' = lb
        /\ width' = cv.w /\ height' = cv.h
        /\ scaleFactor' = Unit
        /\ gx' = x0
        /\ first' = fst
        /\ firstFailure' = fst
        /\ last' = lst
        /\ factorizations' = emptyFactoring(factorizations, fst, lst)
        /\ \E bi \in {barsShowing(fst, lst, x0, Unit, cv.w)} :
           \E c \in {collectDataForScale(bi, elementFailures(mark), sg,
                                         cv.h, y0)} :
              /\ collectFailed' = c.collectFailed
              /\ heightScale' = c.heightScale
              /\ gy' = c.gy
        /\ looping' = loopAfterSetup
        /\ lastTick' = NoTick
        /\ hist' = [base |-> frame, quiet |-> TRUE,
                    events |-> IF phase = "running" THEN hist.events + 1
                               ELSE hist.events,
                    woke |-> FALSE]
        /\ UNCHANGED <<frame, keysDown, mouse, hover, probe>>

(***************************************************************************)
(* draw(): lines 410-461, one tick of the loop.                            *)
(***************************************************************************)
keyIsPressed == keysDown # {}

\* (\E over a one-element set names the value of a step of draw())
Draw(mark, failF) ==
    /\ phase = "running"
    /\ looping
    /\ frame <= FrameCap
    /\ mark \in elementProgress(backend, last)
    /\ \E failE \in {elementFailures(mark)} :
       \E v \in {IF keyIsPressed THEN keyPresses(View, keysDown) ELSE View} :
       \E fr \in {IF keyIsPressed THEN frame ELSE frame + 1} :
       \E bi \in {barsShowing(first, last, v.gx, v.scaleFactor, width)} :
          /\ v.gx >= -(MaxPanX * Unit) /\ v.gx <= (MaxPanX \div 4) * Unit
          /\ keysDown \cap {"U", "O"} # {}
             => /\ v.heightScale >= -(MaxStretch * Unit)
                /\ v.heightScale <= (MaxStretch + 10) * Unit
          /\ failF \in factorAnswers(backend, firstFailure .. bi.maxBars)
          /\ \E c \in {collectDataForScale(bi, failE, signs, height, v.gy)} :
             \E cThrew \in {collectFailed /\ c.threw} :
             \E st \in {storeFactors(bi, firstFailure, factorizations, failF)} :
             \E dl \in {drawLoop(bi, failE)} :
             \E tried \in {IF cThrew THEN {} ELSE firstFailure .. bi.maxBars} :
             \E threw \in {cThrew \/ dl.threw} :
             \E gyNow \in {IF collectFailed /\ ~c.threw THEN c.gy ELSE v.gy} :
             \E hsNow \in {IF collectFailed /\ ~c.threw
                           THEN c.heightScale ELSE v.heightScale} :
             \E hv \in {drawTerms(bi.minBars,
                                  IF cThrew THEN bi.minBars - 1
                                  ELSE bi.minBars + Cardinality(dl.drawn) - 1,
                                  [mousePrime |-> mousePrime,
                                   mouseOn |-> FALSE,
                                   mouseIndex |-> mouseIndex],
                                  st.factorizations,
                                  [signs |-> signs, highlight |-> highlight,
                                   first |-> first, gx |-> v.gx,
                                   gy |-> gyNow, heightScale |-> hsNow,
                                   ptr |-> scaled(mouse, v.scaleFactor)])} :
             \E hv2 \in {IF threw THEN hv
                         ELSE bottomText(hv, height, labels)} :
                /\ mousePrime' = hv2.mousePrime
                /\ mouseOn' = hv2.mouseOn
                /\ mouseIndex' = hv2.mouseIndex
                /\ backend' = [backend EXCEPT !.elemTo = mark]
                /\ frame' = fr
                /\ scaleFactor' = v.scaleFactor
                /\ gx' = v.gx
                /\ gy' = gyNow
                /\ heightScale' = hsNow
                /\ collectFailed' = (collectFailed /\ c.collectFailed)
                /\ firstFailure' = IF cThrew THEN firstFailure
                                   ELSE st.firstFailure
                /\ factorizations' = IF cThrew THEN factorizations
                                     ELSE st.factorizations
                /\ looping' = (threw \/ ~idleStop(fr))
                /\ lastTick' =
                      [bars |-> bi,
                       calls |-> drawCalls(collectFailed, ~cThrew,
                                           ~cThrew /\ bi.minBars <= bi.maxBars),
                       threw |-> threw,
                       tried |-> tried,
                       failedF |-> tried \cap failF,
                       drawn |-> IF cThrew THEN {} ELSE dl.drawn,
                       failedE |-> failE \cap (bi.minBars .. bi.maxBars)]
    /\ hist' = [hist EXCEPT !.quiet = @ /\ ~keyIsPressed]
    /\ UNCHANGED <<phase, first, last, signs, width, height, keysDown,
                   highlight, labels, mouse, probe>>

(***************************************************************************)
(* Input handlers: lines 583-614.                                          *)
(***************************************************************************)
resetLoopKeepsFrame ==
    /\ frame' = frame
    /\ looping' = TRUE

resetLoop ==
    /\ frame' = 0
    /\ looping' = TRUE

\* bookkeeping of an input event
event(h) == [h EXCEPT !.base = 0, !.quiet = TRUE, !.events = @ + 1,
                      !.woke = ~looping]

KeyPressed(k) ==
    /\ phase = "running"
    /\ keysDown = {}
    /\ hist.events < MaxEvents
    /\ keysDown' = {k}
    /\ resetLoop
    /\ hist' = event(hist)
    /\ lastTick' = NoTick
    /\ UNCHANGED <<phase, first, last, signs, width, height, factorizations,
                   firstFailure, scaleFactor, gx, gy, heightScale,
                   collectFailed, backend, highlight, labels, mouse, hover,
                   probe>>

KeyReleased(k) ==
    /\ k \in keysDown
    /\ keysDown' = keysDown \ {k}
    /\ lastTick' = NoTick
    /\ UNCHANGED <<phase, first, last, signs, width, height, factorizations,
                   firstFailure, frame, looping, scaleFactor, gx, gy,
                   heightScale, collectFailed, backend, hist, highlight,
                   labels, mouse, hover, probe>>

\* the pointer has moved to p
MouseMoved(p) ==
    /\ phase = "running"
    /\ hist.events < MaxEvents
    /\ mouse' = p
    /\ resetLoop
    /\ hist' = event(hist)
    /\ lastTick' = NoTick
    /\ UNCHANGED <<phase, first, last, signs, width, height, factorizations,
                   firstFailure, scaleFactor, gx, gy, heightScale,
                   collectFailed, keysDown, backend, highlight, labels,
                   hover, probe>>

MouseWheel(deltaPositive) ==
    LET v == IF deltaPositive THEN zoomBy(View, 103, 100)
             ELSE zoomBy(View, 97, 100)
    IN  /\ phase = "running"
        /\ hist.events < MaxEvents
        /\ scaleFactor' = v.scaleFactor
        /\ gy' = v.gy
        /\ resetLoop
        /\ hist' = event(hist)
        /\ lastTick' = NoTick
        /\ UNCHANGED <<phase, first, last, signs, width, height,
                       factorizations, firstFailure, gx, heightScale,
                       collectFailed, keysDown, backend, highlight, labels,
                       mouse, hover, probe>>

\* refreshParams() shows the new value in the parameter panel
MouseClicked ==
    /\ phase = "running"
    /\ hist.events < MaxEvents
    /\ highlight' = IF mouseOn THEN mousePrime ELSE 1
    /\ resetLoop
    /\ hist' = event(hist)
    /\ lastTick' = NoTick
    /\ UNCHANGED <<phase, first, last, signs, width, height, factorizations,
                   firstFailure, scaleFactor, gx, gy, heightScale,
                   collectFailed, keysDown, backend, labels, mouse, hover,
                   probe>>

(***************************************************************************)
(* The backend gets able to supply what it could not: a session whose      *)
(* getFactors call for one index could throw becomes one whose every       *)
(* getFactors call returns.  Nothing in the visualizer is told.            *)
(***************************************************************************)
BackendRecovers ==
    /\ phase = "running"
    /\ backend.factors = "flaky"
    /\ backend' = [backend EXCEPT !.factors = "ok", !.hole = 0]
    /\ lastTick' = NoTick
    /\ UNCHANGED <<phase, first, last, signs, width, height, factorizations,
                   firstFailure, frame, looping, scaleFactor, gx, gy,
                   heightScale, collectFailed, keysDown, hist, highlight,
                   labels, mouse, hover, probe>>

(***************************************************************************)
(* The behaviours of one instance.                                         *)
(***************************************************************************)
PanKeys == {"LEFT", "RIGHT"}

\* one animation frame: draw() with the answers the backend gives in it
Tick ==
    \E mark \in elementProgress(backend, last) :
       \E failF \in factorAnswers(backend, first .. last) :
          Draw(mark, failF)

Next ==
    \/ \E se \in Sessions :
          \E mark \in elementMarks(se.backend, SeqLast) :
             Setup(se.terms, se.signs, se.highlight, se.labels, se.canvas,
                   se.backend, mark)
    \/ Tick
    \/ \E k \in PanKeys : KeyPressed(k)
    \/ \E k \in Keys : KeyReleased(k)
    \/ MouseMoved(Corner)
    \/ \E d \in BOOLEAN : MouseWheel(d)
    \/ MouseClicked
    \/ BackendRecovers

Spec == Init /\ [][Next]_vars

\* p5 calls draw() on every animation frame while the loop is on
FairSpec == Spec /\ WF_vars(Tick)

(***************************************************************************)
(* The same instance with a pointer that moves over the graph: one session *)
(* on a backend that answers every call, the pointer moving onto the bar   *)
(* of the first term that starts at the baseline, and back to the corner.  *)
(***************************************************************************)
PointerSession ==
    [terms |-> SeqLen + 1, signs |-> TRUE, canvas |-> [w |-> 14, h |-> 100],
     backend |-> Ready, highlight |-> 1, labels |-> TRUE]

\* the middle of the bar of the first term that starts at the baseline (a
\* bar of prime 2, below the baseline for a negative term drawn with signs)
OnLowestBar ==
    LET c      == termCorner(SeqFirst, first, gx, gy)
        h      == (BigLog(2) * heightScale) \div Unit
        mySign == IF getElement(SeqFirst) < 0 /\ signs THEN -1 ELSE 1
    IN  [x |-> ((c.x + (recWidth * Unit) \div 2) * scaleFactor) \div Unit,
         y |-> ((c.y - mySign * (h \div 2)) * scaleFactor) \div Unit]

PointerSpots == {OnLowestBar, Corner}

NextPointer ==
    \/ Setup(PointerSession.terms, PointerSession.signs,
             PointerSession.highlight, PointerSession.labels,
             PointerSession.canvas, PointerSession.backend, SeqLast)
    \/ Tick
    \/ \E k \in PanKeys : KeyPressed(k)
    \/ \E k \in Keys : KeyReleased(k)
    \/ \E p \in PointerSpots : MouseMoved(p)
    \/ MouseClicked

SpecPointer == Init /\ [][NextPointer]_vars

(***************************************************************************)
(* The same session with the stretch keys: U and O held during ticks.      *)
(***************************************************************************)
StretchKeys == {"U", "O"}

NextStretch ==
    \/ Setup(PointerSession.terms, PointerSession.signs,
             PointerSession.highlight, PointerSession.labels,
             PointerSession.canvas, PointerSession.backend, SeqLast)
    \/ Tick
    \/ \E k \in StretchKeys : KeyPressed(k)
    \/ \E k \in Keys : KeyReleased(k)
    \/ \E d \in BOOLEAN : MouseWheel(d)

SpecStretch == Init /\ [][NextStretch]_vars

(***************************************************************************)
(* One term on its own: the conversion storeFactors applies to a fetched   *)
(* factor list (lines 299-313), then drawTerm on the list it produced, for *)
(* every factor list of at most MaxPairs pairs over RawBases and           *)
(* RawPowers, as the factorization of the term it multiplies to.           *)
(***************************************************************************)
RawBases == {-1, 0, 1, 2, 3}
RawPowers == {1, 3}
RawLists == UNION {[1 .. n -> RawBases \X RawPowers] : n \in 0 .. MaxPairs}

RECURSIVE Power(_, _)
Power(b, e) == IF e = 0 THEN 1 ELSE b * Power(b, e - 1)

\* the term a factor list is the factorization of
RECURSIVE Value(_)
Value(facsRaw) ==
    IF facsRaw = << >> THEN 1
    ELSE Power(Head(facsRaw)[1], Head(facsRaw)[2]) * Value(Tail(facsRaw))

\* the stack starts at the origin; one unit of log is ProbeScale pixels
ProbeStart == [x |-> 0, y |-> 0]
ProbeScale == 10 * Unit
barOfTwo == (BigLog(2) * ProbeScale) \div Unit

\* the pointer: on the top edge of a first bar of prime 2, above and below
\* the baseline; inside such a bar; and left of the stack
ProbePointers ==
    {[x |-> (recWidth * Unit) \div 2, y |-> -barOfTwo],
     [x |-> (recWidth * Unit) \div 2, y |-> barOfTwo],
     [x |-> (recWidth * Unit) \div 2, y |-> -(barOfTwo \div 2)],
     [x |-> -Unit, y |-> 0]}

ProbeHighlights == {1, 3, 6}

ProbeArgs ==
    [stage : {"args"}, facsRaw : RawLists, signs : BOOLEAN,
     highlight : ProbeHighlights, ptr : ProbePointers]

InitTerm ==
    /\ Constructed
    /\ probe \in ProbeArgs

\* lines 299-313 for the fetched list
StoreProbe ==
    /\ probe.stage = "args"
    /\ probe' = [stage |-> "stored", facsRaw |-> probe.facsRaw,
                 signs |-> probe.signs, highlight |-> probe.highlight,
                 ptr |-> probe.ptr, factors |-> Bars(probe.facsRaw)]
    /\ UNCHANGED fields

\* drawTerm for the term, with the stored list as factorizations[myIndex]
DrawTermProbe ==
    /\ probe.stage = "stored"
    /\ \E d \in {drawTerm(Value(probe.facsRaw), probe.factors, probe.signs,
                           probe.highlight, 0, ProbeStart, ProbeScale,
                           probe.ptr)} :
          probe' = [stage |-> "drawn", facsRaw |-> probe.facsRaw,
                    signs |-> probe.signs, highlight |-> probe.highlight,
                    ptr |-> probe.ptr, factors |-> probe.factors,
                    myTerm |-> Value(probe.facsRaw),
                    segments |-> d.segments, mousePrime |-> d.mousePrime,
                    mouseOn |-> d.mouseOn]
    /\ UNCHANGED fields

NextTerm ==
    \/ StoreProbe
    \/ DrawTermProbe

SpecTerm == InitTerm /\ [][NextTerm]_vars

(***************************************************************************)
(* The configuration checks, each applied once on its own to a value the   *)
(* form can hold: FactorFence's validator of terms, and checkParameters    *)
(* of VisualizerFactors and of Histogram.  The parameters are forced to    *)
(* integers; the status is {isValid, errors}.                              *)
(***************************************************************************)
ConfigValues == -MaxConfig .. MaxConfig

\* a status with no error
ok == [isValid |-> TRUE, errors |-> << >>]

\* ValidationStatus.errorIf(condition, message)
errorIf(condition, message) ==
    IF condition THEN [isValid |-> FALSE, errors |-> <<message>>] ELSE ok

\* what the checks of the base class return before the subclass adds its own
SuperStatuses ==
    {ok, [isValid |-> FALSE, errors |-> <<"A required field is empty.">>]}

\* FactorFence.ts lines 82-86: the validator of terms
termsValidate(n) == errorIf(n <= 0, "Number of terms must be positive.")

\* VisualizerFactors.ts lines 83-92, with terms < 0 for terms < 1
checkParametersFactorsBelowZero(terms, status) ==
    LET errors == IF terms < 0
                  THEN Append(status.errors,
                           "The number of terms must be an integer > 0.")
                  ELSE status.errors
    IN  [isValid |-> IF Len(errors) > 0 THEN FALSE ELSE status.isValid,
         errors |-> errors]

\* VisualizerFactors.ts lines 83-92
checkParametersFactors(terms, status) ==
    LET errors == IF terms < 1
                  THEN Append(status.errors,
                           "The number of terms must be an integer > 0.")
                  ELSE status.errors
    IN  [isValid |-> IF Len(errors) > 0 THEN FALSE ELSE status.isValid,
         errors |-> errors]

\* Histogram.ts lines 76-85
checkParametersHistogram(binSize, status) ==
    IF binSize < 1
    THEN [isValid |-> FALSE,
          errors |-> Append(status.errors, "Bin Size can not be less than 1")]
    ELSE status

ConfigArgs ==
    {[stage |-> "config", value |-> n, super |-> s] :
        n \in ConfigValues, s \in SuperStatuses}

InitConfig ==
    /\ Constructed
    /\ probe \in ConfigArgs

Checked(check, status) ==
    /\ probe.stage = "config"
    /\ probe' = [stage |-> "checked", check |-> check, value |-> probe.value,
                 super |-> probe.super, status |-> status]
    /\ UNCHANGED fields

ValidateTerms ==
    /\ probe.stage = "config"
    /\ probe.super = ok
    /\ Checked("FactorFence.terms", termsValidate(probe.value))

CheckParametersFactors ==
    /\ probe.stage = "config"
    /\ Checked("VisualizerFactors.checkParameters",
               checkParametersFactors(probe.value, probe.super))

CheckParametersHistogram ==
    /\ probe.stage = "config"
    /\ Checked("Histogram.checkParameters",
               checkParametersHistogram(probe.value, probe.super))

NextConfig ==
    \/ ValidateTerms
    \/ CheckParametersFactors
    \/ CheckParametersHistogram

SpecConfig == InitConfig /\ [][NextConfig]_vars

(***************************************************************************)
(* SequenceClassDefault: the fields params, settings, ready and isValid    *)
(* of one sequence object, with the calls validate() and initialize() and  *)
(* the caller's assignment of params.  The object is held in probe; first  *)
(* is 0 from construction and no method assigns it, so the safe-integer    *)
(* test of initialize() never throws and is left out.                      *)
(***************************************************************************)
Undefined == "undefined"
ParamNames == {"name", "first"}
ParamValues == {"", Undefined}
SequenceParams == [name : ParamNames, value : ParamValues]
ParamLists ==
    UNION {[1 .. n -> SequenceParams] : n \in 0 .. MaxParams}

\* lines 61-63: params.forEach(param => settings[param.name] = param.value)
RECURSIVE moveParams(_, _)
moveParams(settings, params) ==
    IF params = << >> THEN settings
    ELSE moveParams([settings EXCEPT ![Head(params).name] = Head(params).value],
                    Tail(params))

\* new ValidationStatus(isValid, errors)
ValidationStatus(isValid, errors) == [isValid |-> isValid, errors |-> errors]

\* lines 60-77
validate(q) ==
    LET settings == moveParams(q.settings, q.params)
    IN  IF settings["name"] # Undefined
        THEN [q EXCEPT !.settings = settings, !.isValid = TRUE,
                       !.status = ValidationStatus(TRUE, << >>)]
        ELSE [q EXCEPT !.settings = settings,
                       !.status = ValidationStatus(TRUE,
                                      <<"name param is undefined.">>)]

\* lines 34-45
initialize(q) ==
    IF q.ready THEN [q EXCEPT !.threw = FALSE]
    ELSE IF q.isValid THEN [q EXCEPT !.ready = TRUE, !.threw = FALSE]
    ELSE [q EXCEPT !.threw = TRUE]

\* lines 15-27: the object after construction
NewSequence ==
    [stage |-> "sequence",
     params |-> <<[name |-> "name", value |-> ""]>>,
     settings |-> [n \in ParamNames |-> Undefined],
     ready |-> FALSE, isValid |-> FALSE,
     status |-> ValidationStatus(FALSE, << >>), threw |-> FALSE,
     call |-> "constructor", before |-> "none"]

InitSequence ==
    /\ Constructed
    /\ probe = NewSequence

Called(q, call) ==
    /\ probe' = [q EXCEPT !.call = call, !.before = probe.call]
    /\ UNCHANGED fields

\* the caller gives the sequence its params list
SetParams(params) ==
    /\ probe.stage = "sequence"
    /\ Called([probe EXCEPT !.params = params, !.threw = FALSE], "params")

Validate ==
    /\ probe.stage = "sequence"
    /\ Called([validate(probe) EXCEPT !.threw = FALSE], "validate")

Initialize ==
    /\ probe.stage = "sequence"
    /\ Called(initialize(probe), "initialize")

NextSequence ==
    \/ \E params \in ParamLists : SetParams(params)
    \/ Validate
    \/ Initialize

SpecSequence == InitSequence /\ [][NextSequence]_vars

(***************************************************************************)
(* VisualizerChaos.numModulus, applied once on its own to a term a and a   *)
(* modulus b, as draw applies it to a term and the number of corners and   *)
(* to an index and the number of walkers.                                  *)
(***************************************************************************)
\* the operator % of BigInt: the remainder takes the sign of the dividend
bigRem(A, B) == IF A < 0 THEN -((-A) % B) ELSE A % B

\* lines 200-213; "throw" for the Error of line 203
numModulus(a, b) ==
    IF b <= 0 THEN "throw"
    ELSE IF a < 0 THEN bigRem(a, b) + b
    ELSE bigRem(a, b)

ModulusArgs ==
    {[stage |-> "modulus", a |-> a, b |-> b] :
        a \in -MaxTerm .. MaxTerm, b \in 1 .. MaxModulus}

InitModulus ==
    /\ Constructed
    /\ probe \in ModulusArgs

NumModulus ==
    /\ probe.stage = "modulus"
    /\ probe' = [stage |-> "residue", a |-> probe.a, b |-> probe.b,
                 result |-> numModulus(probe.a, probe.b)]
    /\ UNCHANGED fields

NextModulus == NumModulus

SpecModulus == InitModulus /\ [][NextModulus]_vars

(***************************************************************************)
(* VisualizerChaos: one visualizer object from construction through        *)
(* validate() and setup() to the draw ticks.  Of the settings, offset, num,*)
(* corners, walkers and pixelsPerFrame decide which indices are processed; *)
(* the others (style, highlightWalker, circSize, alpha, frac) keep their   *)
(* defaults, which validate() accepts.  The settings are integers.  The    *)
(* sequence is one of two, defined at every index from its first on.       *)
(***************************************************************************)
ChaosSettings ==
    [offset : {-1, 0, 2}, num : -1 .. MaxNum, corners : 1 .. 3,
     walkers : 0 .. 2, pixelsPerFrame : -1 .. 2]

ChaosSequences == {"naturals", "negatives"}

\* seq.getElement(i) of the sequence of the chaos game
chaosElement(seq, i) == IF seq = "naturals" THEN i ELSE -i

\* lines 169-190: the checks on the five settings
chaosAccepted(s) ==
    /\ ~(s.offset < 0)
    /\ ~(s.num < 0)
    /\ ~(s.corners < 2)
    /\ ~(s.walkers < 1)
    /\ ~(s.pixelsPerFrame < 0)

\* line 319
pixelsLimit(c) ==
    c.myIndex + Min(IF c.num # 0 THEN c.num - c.myIndex + 1
                    ELSE c.pixelsPerFrame,
                    c.pixelsPerFrame)

\* lines 320-330: the indices of one tick and the corner and walker of each
Steps(c) ==
    [k \in 1 .. Max(0, pixelsLimit(c) - c.myIndex) |->
        [index |-> c.myIndex + k - 1,
         myCorner |-> numModulus(chaosElement(c.seq, c.myIndex + k - 1),
                                   c.corners),
         myWalker |-> numModulus(c.myIndex + k - 1, c.walkers)]]

\* lines 129-146: the fields after construction
NewChaos ==
    [stage |-> "chaos", phase |-> "new", isValid |-> FALSE,
     offset |-> 0, num |-> 0, corners |-> 0, walkers |-> 0,
     pixelsPerFrame |-> 0, myIndex |-> 0, seq |-> "naturals",
     looping |-> FALSE, processed |-> << >>, tick |-> << >>]

InitChaos ==
    /\ Constructed
    /\ probe = NewChaos

\* lines 151-198
ChaosValidate(s) ==
    /\ probe.stage = "chaos"
    /\ probe.phase \in {"new", "validated"}
    /\ probe' = [probe EXCEPT !.phase = "validated",
                              !.offset = s.offset, !.num = s.num,
                              !.corners = s.corners, !.walkers = s.walkers,
                              !.pixelsPerFrame = s.pixelsPerFrame,
                              !.isValid = chaosAccepted(s)]
    /\ UNCHANGED fields

\* lines 227-314; the sketch loops after setup()
ChaosSetup(seq, seqFirst) ==
    /\ probe.stage = "chaos"
    /\ probe.phase = "validated"
    /\ probe.isValid
    /\ probe' = [probe EXCEPT !.phase = "running", !.seq = seq,
                              !.offset = Max(probe.offset, seqFirst),
                              !.myIndex = Max(probe.offset, seqFirst),
                              !.looping = TRUE]
    /\ UNCHANGED fields

\* lines 316-373
ChaosDraw ==
    /\ probe.stage = "chaos"
    /\ probe.phase = "running"
    /\ probe.looping
    /\ probe.myIndex <= MaxIndex
    /\ \E steps \in {Steps(probe)} :
         \E myIndex \in {probe.myIndex + Len(steps)} :
            probe' = [probe EXCEPT
                        !.myIndex = myIndex,
                        !.processed = probe.processed
                                      \o [k \in 1 .. Len(steps) |-> steps[k].index],
                        !.tick = steps,
                        !.looping = ~(probe.num # 0 /\ myIndex > probe.num)]
    /\ UNCHANGED fields

NextChaos ==
    \/ \E s \in ChaosSettings : ChaosValidate(s)
    \/ \E seq \in ChaosSequences, seqFirst \in 0 .. 1 : ChaosSetup(seq, seqFirst)
    \/ ChaosDraw

SpecChaos == InitChaos /\ [][NextChaos]_vars

\* the sketch keeps calling draw() while it loops
FairChaos == SpecChaos /\ WF_vars(ChaosDraw)

(***************************************************************************)
(* SelfSimilarity: one visualizer object from construction through         *)
(* presketch() and setup() to the draw ticks.  calls is the list of the    *)
(* positions drawNew was called with since setup().  width and height are  *)
(* positive, as their validators require; the sequence has a term at every *)
(* column, so drawNew returns.                                             *)
(***************************************************************************)
GridSizes == (1 .. MaxGrid) \cup {BigGrid}
ViewSizes == 1 .. MaxView

\* lines 344-352: the requested dimension, or the maximum when it does not fit
dimensionValue(param, max) == IF param > max THEN max ELSE param

\* lines 199-214: the fields after construction
NewSimilarity ==
    [stage |-> "similarity", phase |-> "new", width |-> 150, height |-> 100,
     maxWidth |-> 0, maxHeight |-> 0, useWidth |-> 0, useHeight |-> 0,
     i |-> 0, calls |-> << >>]

InitSimilarity ==
    /\ Constructed
    /\ probe = NewSimilarity

\* lines 306-313, for a view of size w by h and the parameters given
SimilarityPresketch(columns, rows, w, h) ==
    /\ probe.stage = "similarity"
    /\ probe.phase = "new"
    /\ probe' = [probe EXCEPT !.phase = "presketched",
                              !.width = columns, !.height = rows,
                              !.maxWidth = maxScale * w,
                              !.maxHeight = maxScale * h]
    /\ UNCHANGED fields

\* lines 315-373
SimilaritySetup ==
    /\ probe.stage = "similarity"
    /\ probe.phase = "presketched"
    /\ probe' = [probe EXCEPT
                    !.phase = "running",
                    !.useHeight = dimensionValue(probe.height, probe.maxHeight),
                    !.useWidth = dimensionValue(probe.width, probe.maxWidth),
                    !.i = 0, !.calls = << >>]
    /\ UNCHANGED fields

\* lines 375-385
SimilarityDraw ==
    /\ probe.stage = "similarity"
    /\ probe.phase = "running"
    /\ IF probe.i > probe.useHeight * probe.useWidth
       THEN probe' = [probe EXCEPT !.phase = "stopped"]
       ELSE probe' = [probe EXCEPT
                        !.calls = probe.calls
                                  \o [j \in 1 .. drawsPerTick |-> probe.i + j - 1],
                        !.i = probe.i + drawsPerTick]
    /\ UNCHANGED fields

NextSimilarity ==
    \/ \E columns \in GridSizes, rows \in GridSizes, w \in ViewSizes, h \in ViewSizes :
          SimilarityPresketch(columns, rows, w, h)
    \/ SimilaritySetup
    \/ SimilarityDraw

SpecSimilarity == InitSimilarity /\ [][NextSimilarity]_vars

\* the sketch keeps calling draw() until stop()
FairSimilarity == SpecSimilarity /\ WF_vars(SimilarityDraw)

(***************************************************************************)
(* Vocabulary of the properties.                                           *)
(***************************************************************************)
\* the step just taken was a draw tick
IsTick == lastTick.calls # << >>

\* the visible range of that tick
Visible == lastTick.bars.minBars .. lastTick.bars.maxBars

\* the range barsShowing() gives for the current view
barsNow == barsShowing(first, last, gx, scaleFactor, width)

\* the cache slot of index i: undefined, or the list it holds
Entry(cache, i) ==
    IF i \in DOMAIN cache THEN <<"list", cache[i]>> ELSE <<"undefined">>

\* the list a successful fetch of index i stores
Factored(i) == Bars(getFactors(i))

\* position of a step name in an order of steps (0 when absent)
Place(order, name) ==
    IF \E n \in DOMAIN order : order[n] = name
    THEN CHOOSE n \in DOMAIN order : order[n] = name
    ELSE 0

\* the calls were made in the given order
InOrder(calls, order) ==
    /\ \A n \in DOMAIN calls : Place(order, calls[n]) > 0
    /\ \A m, n \in DOMAIN calls :
          m < n => Place(order, calls[m]) < Place(order, calls[n])

(***************************************************************************)
(* C1..C10: the factorization cache, the draw tick and the view window.    *)
(***************************************************************************)

\* C1: with a backend whose every getFactors and getElement call succeeds,
\* a draw tick that follows a tick with the same visible range never
\* decreases firstFailure, and firstFailure eventually becomes strictly
\* greater than maxBars of the visible range (stated for the behaviours
\* without user input, in which the visible range stays the same).
C1_FrontierPassesRange ==
    /\ [][(backend = Ready /\ IsTick /\ IsTick'
           /\ lastTick'.bars = lastTick.bars)
          => firstFailure' >= firstFailure]_vars
    /\ [](keysDown = {} /\ hist.events = 0)
          => ((phase = "running" /\ backend = Ready)
                 ~> (IsTick /\ firstFailure > lastTick.bars.maxBars))

C3_TickCompletes ==
    (IsTick /\ (lastTick.failedE # {} \/ lastTick.failedF # {}))
    => ~lastTick.threw

\* C4: with no key held and no tick with a key held since the loop was
\* started by setup or restarted by an input event, the loop is on exactly
\* until four ticks have run since then, and the ticks are counted by frame
\* from 0 (setup and every input event leave frame at 0).
C4_FourTicksThenIdle ==
    (phase = "running" /\ backend.elements = "ok" /\ hist.quiet
     /\ keysDown = {})
    => /\ hist.base = 0
       /\ looping <=> (frame - hist.base <= IdleThreshold)

\* C5: collectDataForScale called twice in a row with the same barsInfo and
\* the same available sequence values leaves heightScale and graphCorner.y
\* after the second call equal to their values after the first call.
C5_ScaleIdempotent ==
    phase = "running"
    => \A mark \in elementMarks(backend, last) :
          LET failE == elementFailures(mark)
              once  == collectDataForScale(barsNow, failE, signs, height, gy)
              twice == collectDataForScale(barsNow, failE, signs, height,
                                           once.gy)
          IN  ~once.threw
              => /\ ~twice.threw
                 /\ twice.heightScale = once.heightScale
                 /\ twice.gy = once.gy

\* C6: in every view state reached by pan and zoom inputs barsShowing
\* returns numBars >= 0, and numBars = 0 when last < minBars.
C6_NonNegativeRange ==
    phase = "running"
    => /\ barsNow.numBars >= 0
       /\ last < barsNow.minBars => barsNow.numBars = 0

\* C7: in every view state barsShowing returns minBars >= first and
\* maxBars = minBars + numBars - 1 <= last, and no index outside
\* [first, last] is fetched or drawn by a draw tick.
C7_RangeWithinSequence ==
    /\ phase = "running"
       => /\ barsNow.minBars >= first
          /\ barsNow.maxBars = barsNow.minBars + barsNow.numBars - 1
          /\ barsNow.maxBars <= last
    /\ IsTick
       => /\ lastTick.bars.minBars >= first
          /\ lastTick.bars.maxBars <= last
          /\ lastTick.tried \subseteq first .. last
          /\ lastTick.drawn \subseteq first .. last

\* a tick after panning in which the range ends at the sequence's last
\* index and the terms up to it are fetched and drawn
C7_Witness ==
    /\ IsTick
    /\ lastTick.bars.minBars > first
    /\ lastTick.bars.maxBars = last
    /\ last \in lastTick.tried
    /\ last \in lastTick.drawn

C9_FailureWritesNothing ==
    [][\A i \in lastTick'.failedF :
          Entry(factorizations', i) = Entry(factorizations, i)]_vars

\* C10: between two setups, once factorizations[i] holds the result of a
\* successful getFactors(i), no draw tick changes that entry.
C10_CachedEntryStable ==
    [][IsTick'
       => \A i \in first .. last :
             (Factored(i) # << >>
              /\ Entry(factorizations, i) = <<"list", Factored(i)>>)
             => Entry(factorizations', i) = Entry(factorizations, i)]_vars

(***************************************************************************)
(* C11..C20: retries, input handlers, re-setup, and the bars of one term.  *)
(***************************************************************************)

\* C11: when fetches of visible indices fail in a draw tick and the backend
\* then becomes, and stays, able to supply them, a later draw tick fetches
\* without failure and leaves the factorization of every visible index in
\* the cache, with the view unchanged and without further user input
\* (stated for the behaviours without any user input after setup).
C11_FailedFetchRetried ==
    ([](keysDown = {} /\ hist.events = 0) /\ <>[](backend.factors = "ok"))
    => ((IsTick /\ lastTick.failedF \cap Visible # {})
           ~> (/\ IsTick /\ lastTick.failedF = {}
               /\ \A k \in Visible :
                     Entry(factorizations, k) = <<"list", Factored(k)>>))

\* a step of one of the four input handlers
HandlerStep ==
    \/ \E k \in Keys : KeyPressed(k)
    \/ MouseMoved(mouse')
    \/ \E d \in BOOLEAN : MouseWheel(d)
    \/ MouseClicked

\* C12: keyPressed, mouseMoved, mouseWheel and mouseClicked each leave
\* frame at 0 and the loop on, whether the loop was on or halted before,
\* and the loop halts only at the end of a draw tick that found frame above
\* 0: a tick has run since the handler before the loop can halt again.
C12_HandlersRestartLoop ==
    /\ [][HandlerStep => (frame' = 0 /\ looping')]_vars
    /\ [][(looping /\ ~looping') => (IsTick' /\ frame > 0)]_vars

\* a handler has restarted a halted loop and a tick has run since
C12_Witness ==
    /\ hist.woke /\ hist.events > 0
    /\ IsTick /\ looping /\ frame = 1

\* a step of setup()
SetupStep ==
    \E se \in Sessions :
       \E mark \in elementMarks(se.backend, SeqLast) :
          Setup(se.terms, se.signs, se.highlight, se.labels, se.canvas,
                se.backend, mark)

\* C13: when setup() runs again, with a new number of terms, firstFailure
\* is the sequence's first index afterwards and no index of [first, last]
\* holds a factor list: every slot of the range is absent or empty, so
\* nothing cached before the setup is left in it.
C13_SetupDiscardsCache ==
    [][(phase = "running" /\ SetupStep /\ last' # last)
       => /\ firstFailure' = first'
          /\ \A i \in first' .. last' :
                Entry(factorizations', i)
                   \in {<<"undefined">>, <<"list", << >> >>}]_vars

\* C14: in every draw tick each index for which getFactors is attempted
\* lies in the visible range [minBars, maxBars] of that tick.
C14_FetchOnlyVisible ==
    IsTick => lastTick.tried \subseteq Visible

\* the segments of the probed drawTerm call on which the hit test succeeded
Hits == {n \in DOMAIN probe.segments : probe.segments[n].hit}

\* C15: in a drawTerm call whose segments are stacked without overlap (no
\* bar of height 0), the hit test succeeds on at most one segment, wherever
\* the pointer is, the shared edge of two stacked segments included.
C15_OneSegmentHit ==
    (probe.stage = "drawn"
     /\ \A n \in DOMAIN probe.segments : probe.segments[n].height # 0)
    => Cardinality(Hits) <= 1

\* C16: for a term that is exactly 0, 1 or -1, drawTerm draws exactly one
\* segment, the placeholder of height 1, whatever the value of highlight.
C16_PlaceholderOnly ==
    (probe.stage = "drawn" /\ probe.myTerm \in {0, 1, -1})
    => /\ Len(probe.segments) = 1
       /\ probe.segments[1].kind = "placeholder"
       /\ probe.segments[1].height = Unit

\* C17: every bar stored in the cache has prime >= 2, whatever factor list
\* was fetched, lists with the bases 0, 1 or -1 included.
C17_StoredPrimesAtLeastTwo ==
    probe.stage \in {"stored", "drawn"}
    => \A n \in DOMAIN probe.factors : probe.factors[n].prime >= 2

\* the pairs of a fetched list whose base the conversion does not filter out
Unfiltered(pr) == pr[1] \notin {-1, 0}

\* the number of copies the first n pairs of a list stand for
RECURSIVE Copies(_, _)
Copies(pairs, n) ==
    IF n = 0 THEN 0 ELSE Copies(pairs, n - 1) + pairs[n][2]

\* C18: after a successful fetch the cached entry is the concatenation, in
\* the order of the fetched list, of exactly `power` copies of the bar of
\* each pair <<base, power>> whose base is not filtered out (the bases the
\* conversion drops are -1 and 0).
C18_PowerCopiesInOrder ==
    probe.stage = "stored"
    => LET kept == SelectSeq(probe.facsRaw, Unfiltered)
       IN  /\ Len(probe.factors) = Copies(kept, Len(kept))
           /\ \A j \in DOMAIN kept :
                 \A c \in 1 .. kept[j][2] :
                    probe.factors[Copies(kept, j - 1) + c]
                       = [prime |-> kept[j][1], log |-> BigLog(kept[j][1])]

\* a list with a prime of multiplicity 3 after another prime has been
\* converted: three consecutive entries of that prime follow the first's
C18_Witness ==
    /\ probe.stage = "stored"
    /\ probe.facsRaw = << <<2, 1>>, <<3, 3>> >>
    /\ Len(probe.factors) = 4
    /\ \A n \in 2 .. 4 : probe.factors[n].prime = 3

\* the bars among the segments of the probed call, in the order drawn
IsBar(seg) == seg.kind = "bar"
DrawnBars == SelectSeq(probe.segments, IsBar)

\* how many entries of a list of bars have prime q
Count(bars, q) == Cardinality({n \in DOMAIN bars : bars[n].prime = q})

\* the height of the first n bars of a list
RECURSIVE Stacked(_, _)
Stacked(bars, n) ==
    IF n = 0 THEN 0 ELSE Stacked(bars, n - 1) + bars[n].height

\* C19: drawTerm draws every cached bar of the term exactly once; every bar
\* whose prime divides highlight is drawn before every other bar and lies
\* between the baseline and it; and each bar starts at the cumulative
\* height of the bars drawn before it in the call.
C19_StackOrder ==
    probe.stage = "drawn"
    => LET bars == DrawnBars
           base == ProbeStart.y
       IN  /\ Len(bars) = Len(probe.factors)
           /\ \A n \in DOMAIN probe.factors :
                 Count(bars, probe.factors[n].prime)
                    = Count(probe.factors, probe.factors[n].prime)
           /\ \A m, n \in DOMAIN bars :
                 (probe.highlight % bars[m].prime = 0
                  /\ probe.highlight % bars[n].prime # 0)
                 => /\ m < n
                    /\ Abs(bars[m].y - bars[m].height - base)
                          <= Abs(bars[n].y - base)
           /\ \A n \in DOMAIN bars :
                 bars[n].y = base - Stacked(bars, n - 1)

\* the term 2 * 3^3 drawn with highlight 3: the three bars of 3 come
\* first, the bar of 2, first in the cached list, on top of them
C19_Witness ==
    /\ probe.stage = "drawn"
    /\ probe.facsRaw = << <<2, 1>>, <<3, 3>> >>
    /\ probe.highlight = 3
    /\ Len(DrawnBars) = 4
    /\ DrawnBars[1].prime = 3
    /\ DrawnBars[4].prime = 2
    /\ DrawnBars[4].y = ProbeStart.y - 3 * DrawnBars[1].height

\* what the hit tests of the drawTerm calls give for the view and the
\* pointer as they are now
Pointed ==
    drawTerms(barsNow.minBars, barsNow.maxBars,
              [mousePrime |-> mousePrime, mouseOn |-> FALSE,
               mouseIndex |-> mouseIndex],
              factorizations,
              [signs |-> signs, highlight |-> highlight, first |-> first,
               gx |-> gx, gy |-> gy, heightScale |-> heightScale,
               ptr |-> scaled(mouse, scaleFactor)])

\* C20: mouseClicked sets highlight to the prime of the bar the pointer is
\* on at the time of the click, and to 1 when it is on no bar, also when
\* the pointer has moved since the last draw tick; highlight is never less
\* than 1.
C20_ClickTakesPointedPrime ==
    /\ [][MouseClicked
          => highlight' = IF Pointed.mouseOn THEN Pointed.mousePrime
                          ELSE 1]_vars
    /\ [](highlight >= 1)

(***************************************************************************)
(* C21..C30.                                                               *)
(***************************************************************************)

\* C21: in every state reached by zoom, wheel, pan and stretch inputs
\* heightScale is strictly positive.
C21_HeightScalePositive ==
    phase = "running" => heightScale > 0

\* C27: between setups every index i with first <= i < firstFailure holds
\* the list of a successful getFactors(i): the slots below the frontier
\* hold the factorizations of their terms, a tick moves the frontier only
\* past indices it has fetched without failure, and it leaves the slots
\* below the frontier it started with as they are.
C27_FrontierOverFetched ==
    /\ [](phase = "running"
          => \A i \in first .. (firstFailure - 1) :
                Entry(factorizations, i) = <<"list", Factored(i)>>)
    /\ [][IsTick'
          => \A i \in first .. (firstFailure' - 1) :
                IF i < firstFailure
                THEN Entry(factorizations', i) = Entry(factorizations, i)
                ELSE i \in lastTick'.tried \ lastTick'.failedF]_vars

\* after a change of view, a tick with a failed fetch has left the frontier
\* above the first index, whose slot holds bars
C27_Witness ==
    /\ IsTick /\ hist.events > 0
    /\ lastTick.failedF # {}
    /\ firstFailure > first
    /\ Factored(first) # << >>
    /\ Entry(factorizations, first) = <<"list", Factored(first)>>

\* C28: in every draw tick that reaches the drawTerm calls, factorizations[i]
\* is a defined list for every i of [minBars, maxBars], i = last included,
\* also in a tick that starts with firstFailure above maxBars.
C28_DrawnEntriesDefined ==
    (IsTick /\ Place(lastTick.calls, "drawTerm") > 0)
    => \A i \in Visible : i \in DOMAIN factorizations

\* a tick that started with firstFailure above maxBars (it fetched
\* nothing) and drew the terms of its range
C28_Witness ==
    /\ IsTick /\ Place(lastTick.calls, "drawTerm") > 0
    /\ lastTick.tried = {}
    /\ lastTick.drawn = Visible /\ Visible # {}

\* C29: at the end of every draw tick in which no segment was hit (mouseOn
\* is false), mousePrime is 0, whatever the canvas height and labels.
C29_NoHoverNoMousePrime ==
    (IsTick /\ ~lastTick.threw /\ ~mouseOn) => mousePrime = 0

\* C30: immediately after every setup(), a setup that follows an idle
\* period included, frame is 0.
C30_SetupResetsFrame ==
    [][SetupStep => frame' = 0]_vars

\* C22: a configuration check applied to a term count <= 0 (FactorFence's
\* validator of terms, VisualizerFactors.checkParameters) or to a bin size
\* < 1 (Histogram.checkParameters) returns a status that carries an error
\* and is not valid; applied to a positive term count or a bin size >= 1 it
\* returns exactly the errors it was handed, adding none.
C22_InvalidConfigurationReported ==
    probe.stage = "checked"
    => IF probe.value < 1
       THEN /\ ~probe.status.isValid
            /\ Len(probe.status.errors) = Len(probe.super.errors) + 1
       ELSE /\ probe.status.errors = probe.super.errors
            /\ probe.status.isValid = probe.super.isValid

C22_Witness ==
    /\ probe.stage = "checked"
    /\ probe.check = "VisualizerFactors.checkParameters"
    /\ probe.value = 0
    /\ probe.super = ok
    /\ ~probe.status.isValid
    /\ Len(probe.status.errors) = 1

\* C23: when validate() of a SequenceClassDefault returns a status whose
\* validity flag is true, isValid is true, and an initialize() that follows
\* it does not throw and leaves ready set; and ready is never set while
\* isValid is false.
C23_ValidStatusMeansUsable ==
    probe.stage = "sequence"
    => /\ (probe.call = "validate" /\ probe.status.isValid) => probe.isValid
       /\ (probe.call = "initialize" /\ probe.before = "validate"
           /\ probe.status.isValid) => (~probe.threw /\ probe.ready)
       /\ probe.ready => probe.isValid

\* C24: for every integer a and every b > 0, numModulus(a, b) is the residue
\* of a modulo b, a number of 0 .. b-1, hence a valid index of a list of b
\* corners or b walkers.
C24_ResidueInRange ==
    probe.stage = "residue"
    => /\ probe.result \in 0 .. (probe.b - 1)
       /\ probe.result = probe.a % probe.b

\* C25: for settings accepted by validate() with num > 0, the draw ticks
\* process the indices offset, offset + 1, ... in this order, each once and
\* none above num (offset being max(offset, seq.first) after setup), all of
\* them are processed when the loop has stopped, and the loop does stop.
C25_IndicesOnceThenStop ==
    /\ []((probe.stage = "chaos" /\ probe.phase = "running" /\ probe.num > 0)
          => /\ \A k \in 1 .. Len(probe.processed) :
                   /\ probe.processed[k] = probe.offset + k - 1
                   /\ probe.processed[k] <= probe.num
             /\ ~probe.looping
                => Len(probe.processed) = Max(0, probe.num - probe.offset + 1))
    /\ (probe.stage = "chaos" /\ probe.phase = "running" /\ probe.num > 0)
          ~> ~probe.looping

\* C26: from setup() on, the k-th call of drawNew is for position k - 1 and
\* that position lies in the grid, below useWidth * useHeight (so no
\* position is drawn twice and none outside the grid); when draw has called
\* stop() every position of the grid has been drawn; and stop() is called
\* after finitely many ticks.
C26_GridDrawnOnce ==
    /\ [](probe.stage = "similarity"
          => /\ \A k \in 1 .. Len(probe.calls) :
                   /\ probe.calls[k] = k - 1
                   /\ probe.calls[k] < probe.useWidth * probe.useHeight
             /\ probe.phase = "stopped"
                => Len(probe.calls) = probe.useWidth * probe.useHeight)
    /\ (probe.stage = "similarity" /\ probe.phase = "running")
          ~> probe.phase = "stopped"

====
